---- MODULE Spec2Model ----
(***************************************************************************)
(* Model of veeam-netperf-parser.py: the timestamp splitter, the size and  *)
(* duration parsers, the four field patterns, the line source, and the     *)
(* validate and scan commands of main.                                     *)
(*                                                                         *)
(* Text is modelled as a sequence of one-character strings, so that the    *)
(* regular expressions and the str methods (strip, split, upper, rstrip)   *)
(* act on characters as they do in the program.  The patterns are written  *)
(* as syntax trees and matched by a backtracking matcher that returns the  *)
(* successes in the priority order of Python's re module (greedy repeats   *)
(* try the longest first, lazy repeats the shortest first, alternatives    *)
(* from left to right).                                                    *)
(*                                                                         *)
(* Alphabet kept out of the model: Unicode digits and Unicode whitespace   *)
(* other than space and tab, and the underscore digit separator of float.  *)
(***************************************************************************)
EXTENDS Integers, Sequences, FiniteSets, TLC

VARIABLES
  tsLine, tsResult,                       \* parse_ts_prefix: argument, result
  szText, szResult,                       \* parse_size: argument, result
  isDir, files, fidx, yielded, srcpc,     \* yield_lines: path kind, files, position, output, state
  cmd, lines, limit, idx, out, shown, printed, notice, csv, pc   \* main

vars == <<tsLine, tsResult, szText, szResult, isDir, files, fidx, yielded, srcpc,
          cmd, lines, limit, idx, out, shown, printed, notice, csv, pc>>

tsVars   == <<tsLine, tsResult>>
szVars   == <<szText, szResult>>
srcVars  == <<isDir, files, fidx, yielded, srcpc>>
mainVars == <<cmd, lines, limit, idx, out, shown, printed, notice, csv, pc>>

-----------------------------------------------------------------------------
(* Optional values: Python's None and a present value. *)
None == <<>>
Some(v) == <<v>>

-----------------------------------------------------------------------------
(* Characters. *)
DigitSeq == <<"0","1","2","3","4","5","6","7","8","9">>
UpperSeq == <<"A","B","C","D","E","F","G","H","I","J","K","L","M","N","O","P","Q","R","S","T","U","V","W","X","Y","Z">>
LowerSeq == <<"a","b","c","d","e","f","g","h","i","j","k","l","m","n","o","p","q","r","s","t","u","v","w","x","y","z">>

SeqRange(q) == {q[k] : k \in 1..Len(q)}

Digit == SeqRange(DigitSeq)                                 \* \d
Space == {" ", "\t"}                                        \* \s
WordChar == Digit \cup SeqRange(UpperSeq) \cup SeqRange(LowerSeq) \cup {"_"}   \* \w

IndexIn(q, c) == CHOOSE k \in 1..Len(q) : q[k] = c

\* str.lower on one character, as re.I folds case
Fold(c) == IF c \in SeqRange(UpperSeq) THEN LowerSeq[IndexIn(UpperSeq, c)] ELSE c
\* str.upper on one character
ToUpper(c) == IF c \in SeqRange(LowerSeq) THEN UpperSeq[IndexIn(LowerSeq, c)] ELSE c

DigitVal(c) == IndexIn(DigitSeq, c) - 1

Least(S) == CHOOSE q \in S : \A o \in S : q <= o
Greatest(S) == CHOOSE q \in S : \A o \in S : q >= o

Repeat(c, n) == [k \in 1..n |-> c]

-----------------------------------------------------------------------------
(* Regular-expression syntax trees. *)
Chr(c)      == [t |-> "chr", c |-> c]
CharSet(S)  == [t |-> "set", s |-> S]
AnyChar     == [t |-> "any"]
Bol         == [t |-> "bol"]
WordB       == [t |-> "wb"]
Eos         == [t |-> "eos"]
Cat(rs)     == [t |-> "cat", rs |-> rs]
Alt(rs)     == [t |-> "alt", rs |-> rs]
Rep(r, lo, hi) == [t |-> "rep", r |-> r, lo |-> lo, hi |-> hi, unb |-> FALSE, greedy |-> TRUE]
Star(r)     == [t |-> "rep", r |-> r, lo |-> 0, hi |-> 0, unb |-> TRUE, greedy |-> TRUE]
Plus(r)     == [t |-> "rep", r |-> r, lo |-> 1, hi |-> 1, unb |-> TRUE, greedy |-> TRUE]
LazyStar(r) == [t |-> "rep", r |-> r, lo |-> 0, hi |-> 0, unb |-> TRUE, greedy |-> FALSE]
Opt(r)      == [t |-> "rep", r |-> r, lo |-> 0, hi |-> 1, unb |-> FALSE, greedy |-> TRUE]
Grp(n, r)   == [t |-> "grp", n |-> n, r |-> r]
Lit(str)    == [t |-> "lit", str |-> str]

(* The matcher.  A success is [e |-> position after the match, c |-> the    *)
(* groups captured so far]; positions are 1-based, so e = m.end() + 1.     *)
IsWordBoundary(s, i) ==
  LET before == i > 1 /\ s[i - 1] \in WordChar
      after  == i <= Len(s) /\ s[i] \in WordChar
  IN  before # after

\* whether the one-character node r accepts the character ch
Accepts(r, ch, ic) ==
  CASE r.t = "chr" -> (IF ic THEN Fold(ch) = Fold(r.c) ELSE ch = r.c)
    [] r.t = "set" -> ch \in r.s
    [] r.t = "any" -> ch # "\n"
    [] OTHER -> FALSE

IsOneChar(r) == r.t \in {"chr", "set", "any"}

\* the number of characters from position i on that the one-character node r accepts
RunLength(r, s, i, ic) ==
  LET ok(k) == \A j \in i..(i + k - 1) : Accepts(r, s[j], ic)
  IN  CHOOSE k \in 0..(Len(s) - i + 1) :
        ok(k) /\ (k = Len(s) - i + 1 \/ ~Accepts(r, s[i + k], ic))

RECURSIVE M(_, _, _, _, _), MAll(_, _, _, _, _, _), MSeq(_, _, _, _, _),
          MAlt(_, _, _, _, _, _), MRep(_, _, _, _, _, _), MRepAll(_, _, _, _, _)

M(r, s, i, c, ic) ==
  CASE IsOneChar(r) ->
         IF i <= Len(s) /\ Accepts(r, s[i], ic) THEN <<[e |-> i + 1, c |-> c]>> ELSE <<>>
    [] r.t = "lit" ->
         IF /\ i + Len(r.str) - 1 <= Len(s)
            /\ \A k \in 1..Len(r.str) : Accepts(Chr(r.str[k]), s[i + k - 1], ic)
         THEN <<[e |-> i + Len(r.str), c |-> c]>> ELSE <<>>
    [] r.t = "bol" -> IF i = 1 THEN <<[e |-> i, c |-> c]>> ELSE <<>>
    [] r.t = "eos" -> IF i = Len(s) + 1 THEN <<[e |-> i, c |-> c]>> ELSE <<>>
    [] r.t = "wb"  -> IF IsWordBoundary(s, i) THEN <<[e |-> i, c |-> c]>> ELSE <<>>
    [] r.t = "cat" -> MSeq(r.rs, 1, s, <<[e |-> i, c |-> c]>>, ic)
    [] r.t = "alt" -> MAlt(r.rs, 1, s, i, c, ic)
    [] r.t = "rep" ->
         IF IsOneChar(r.r)
         THEN \* a repeated single character: the run lengths lo..min(hi, run), the
              \* longest first when greedy and the shortest first when lazy
              LET run == RunLength(r.r, s, i, ic)
                  top == IF r.unb \/ run < r.hi THEN run ELSE r.hi
                  cnt == IF top >= r.lo THEN top - r.lo + 1 ELSE 0
              IN  [k \in 1..cnt |->
                     [e |-> i + (IF r.greedy THEN top - k + 1 ELSE r.lo + k - 1), c |-> c]]
         ELSE MRep(r, 0, s, i, c, ic)
    [] r.t = "grp" ->
         LET inner == M(r.r, s, i, c, ic)
         IN  [k \in 1..Len(inner) |->
                [e |-> inner[k].e,
                 c |-> Append(inner[k].c, [n |-> r.n, b |-> i, e |-> inner[k].e])]]

\* every success of r from the states st[lo..hi], in order
MAll(r, s, st, lo, hi, ic) ==
  IF lo > hi THEN <<>>
  ELSE IF lo = hi THEN M(r, s, st[lo].e, st[lo].c, ic)
  ELSE LET mid == (lo + hi) \div 2
       IN  MAll(r, s, st, lo, mid, ic) \o MAll(r, s, st, mid + 1, hi, ic)

MSeq(rs, k, s, st, ic) ==
  IF k > Len(rs) \/ st = <<>> THEN st
  ELSE MSeq(rs, k + 1, s, MAll(rs[k], s, st, 1, Len(st), ic), ic)

MAlt(rs, k, s, i, c, ic) ==
  IF k > Len(rs) THEN <<>>
  ELSE M(rs[k], s, i, c, ic) \o MAlt(rs, k + 1, s, i, c, ic)

MRep(r, n, s, i, c, ic) ==
  LET once == IF r.unb \/ n < r.hi
              THEN SelectSeq(M(r.r, s, i, c, ic), LAMBDA x : x.e > i)
              ELSE <<>>
      more == MRepAll(r, n + 1, s, once, ic)
      stop == IF n >= r.lo THEN <<[e |-> i, c |-> c]>> ELSE <<>>
  IN  IF r.greedy THEN more \o stop ELSE stop \o more

MRepAll(r, n, s, st, ic) ==
  IF st = <<>> THEN <<>>
  ELSE MRep(r, n, s, Head(st).e, Head(st).c, ic) \o MRepAll(r, n, s, Tail(st), ic)

NoMatch == [found |-> FALSE]

\* the match object of the first success in res, which started at position b
FirstOf(b, res) ==
  IF res = <<>> THEN NoMatch
  ELSE [found |-> TRUE, b |-> b, e |-> res[1].e, c |-> res[1].c]

\* pattern.match(s): the first success anchored at the start of s
Match(re, s) == FirstOf(1, M(re.tree, s, 1, <<>>, re.ic))

SearchAmong(re, s, starts) ==
  IF starts = {} THEN NoMatch
  ELSE FirstOf(Least(starts), M(re.tree, s, Least(starts), <<>>, re.ic))

\* pattern.search(s): the first success at the leftmost position that has one
Search(re, s) ==
  SearchAmong(re, s, {p \in 1..(Len(s) + 1) : M(re.tree, s, p, <<>>, re.ic) # <<>>})

\* m.group(name) / m[name]
Group(m, s, name) ==
  LET k == CHOOSE k \in 1..Len(m.c) : m.c[k].n = name
  IN  SubSeq(s, m.c[k].b, m.c[k].e - 1)

-----------------------------------------------------------------------------
(* ---- timestamp ---- *)
TsMin == 19
TsMax == 26
TsClass == Digit \cup {":", ".", "-"} \cup Space

\* TS = re.compile(r"^(?P<ts>[0-9:.\-\s]{19,26})\s+")
TS == [ic |-> FALSE,
       tree |-> Cat(<<Bol, Grp("ts", Rep(CharSet(TsClass), TsMin, TsMax)), Plus(CharSet(Space))>>)]

\* mutant of TsSplit: the message keeps the separator (line[len(ts):] for line[m.end():])
TsSplit_KeepSeparator(line, m) ==
  IF ~m.found THEN <<None, line>>
  ELSE <<Some(Group(m, line, "ts")), SubSeq(line, Len(Group(m, line, "ts")) + 1, Len(line))>>

TsSplit(line, m) ==
  IF ~m.found THEN <<None, line>>                                  \* if not m: return None, line
  ELSE <<Some(Group(m, line, "ts")), SubSeq(line, m.e, Len(line))>>  \* m.group("ts"), line[m.end():]

parse_ts_prefix(line) == TsSplit(line, Match(TS, line))

-----------------------------------------------------------------------------
(* Python integers beyond TLC's 32-bit machine integers  (2**40 and its     *)
(* multiples) are computed in limbs of six decimal digits, most significant *)
(* limb first, and kept as [neg, d] with d the decimal digits; zero is      *)
(* <<0>> and is never negative.                                             *)
LimbBase == 1000000
LimbDigits == 6

RECURSIVE TimesFrom(_, _, _, _)
\* the limbs of ls[1..k] * f + carry, for a factor f of at most 2**10
TimesFrom(ls, f, k, carry) ==
  IF k = 0 THEN (IF carry > 0 THEN <<carry>> ELSE <<>>)
  ELSE Append(TimesFrom(ls, f, k - 1, (f * ls[k] + carry) \div LimbBase),
              (f * ls[k] + carry) % LimbBase)

Times(ls, f) == TimesFrom(ls, f, Len(ls), 0)

RECURSIVE DivFrom(_, _, _, _)
\* the limbs of ls[k..] with rem carried in, divided by g <= 1000, fraction dropped
DivFrom(ls, g, k, rem) ==
  IF k > Len(ls) THEN <<>>
  ELSE <<(rem * LimbBase + ls[k]) \div g>>
       \o DivFrom(ls, g, k + 1, (rem * LimbBase + ls[k]) % g)

Div(ls, g) == DivFrom(ls, g, 1, 0)

RECURSIVE TimesPow2(_, _)
\* ls * 2**k, ten doublings (a factor 2**10) at a time
TimesPow2(ls, k) ==
  IF k = 0 THEN ls
  ELSE IF k >= 10 THEN Times(TimesPow2(ls, k - 10), 2^10)
  ELSE Times(TimesPow2(ls, k - 1), 2)

RECURSIVE ScaleTen(_, _)
\* ls * 10**p for p >= 0; ls divided by 10**(-p), fraction dropped, for p < 0
ScaleTen(ls, p) ==
  IF p = 0 THEN ls
  ELSE IF p >= 3 THEN Times(ScaleTen(ls, p - 3), 1000)
  ELSE IF p > 0 THEN Times(ScaleTen(ls, p - 1), 10)
  ELSE IF p <= -3 THEN Div(ScaleTen(ls, p + 3), 1000)
  ELSE Div(ScaleTen(ls, p + 1), 10)

\* the decimal digits of the limbs ls, without leading zeros
LimbsToDigits(ls) ==
  LET all == [k \in 1..(LimbDigits * Len(ls)) |->
                (ls[((k - 1) \div LimbDigits) + 1]
                   \div (10 ^ (LimbDigits - 1 - ((k - 1) % LimbDigits)))) % 10]
      nz == {k \in 1..Len(all) : all[k] # 0}
  IN  IF nz = {} THEN <<0>>
      ELSE SubSeq(all, Least(nz), Len(all))

\* the limbs of the number written with the decimal digits ds
DigitsToLimbs(ds) ==
  LET n == (Len(ds) + LimbDigits - 1) \div LimbDigits
      pad == LimbDigits * n - Len(ds)
      digit(k) == IF k <= pad THEN 0 ELSE ds[k - pad]
      base(j) == LimbDigits * (j - 1)
  IN  [j \in 1..n |->
         digit(base(j) + 1) * 100000 + digit(base(j) + 2) * 10000 + digit(base(j) + 3) * 1000
         + digit(base(j) + 4) * 100 + digit(base(j) + 5) * 10 + digit(base(j) + 6)]

SignedInt(neg, ls) ==
  [neg |-> neg /\ LimbsToDigits(ls) # <<0>>, d |-> LimbsToDigits(ls)]

RECURSIVE DigitsToInt(_)
\* int(text) of a run of decimal digits
DigitsToInt(cs) ==
  IF cs = <<>> THEN 0
  ELSE 10 * DigitsToInt(SubSeq(cs, 1, Len(cs) - 1)) + DigitVal(cs[Len(cs)])

-----------------------------------------------------------------------------
(* str.strip, str.split with no argument, str.split(sep), str.rstrip(chars). *)
\* s without its leading and trailing characters of the set chars
LStripOf(s, chars) ==
  IF \A k \in 1..Len(s) : s[k] \in chars THEN <<>>
  ELSE SubSeq(s, Least({k \in 1..Len(s) : s[k] \notin chars}), Len(s))
RStripOf(s, chars) ==
  IF \A k \in 1..Len(s) : s[k] \in chars THEN <<>>
  ELSE SubSeq(s, 1, Greatest({k \in 1..Len(s) : s[k] \notin chars}))

Strip(s) == RStripOf(LStripOf(s, Space), Space)

\* the k-th smallest element of the set S of numbers
Nth(S, k) == CHOOSE p \in S : Cardinality({q \in S : q < p}) = k - 1

\* split(): the maximal runs of non-whitespace characters
TokenStarts(s) == {k \in 1..Len(s) : s[k] \notin Space /\ (k = 1 \/ s[k - 1] \in Space)}
TokenEnds(s)   == {k \in 1..Len(s) : s[k] \notin Space /\ (k = Len(s) \/ s[k + 1] \in Space)}
Split(s) ==
  [k \in 1..Cardinality(TokenStarts(s)) |-> SubSeq(s, Nth(TokenStarts(s), k), Nth(TokenEnds(s), k))]

\* split(sep): the pieces between the occurrences of the character sep
SplitOn(s, sep) ==
  LET cuts == {0, Len(s) + 1} \cup {k \in 1..Len(s) : s[k] = sep}
  IN  [k \in 1..(Cardinality(cuts) - 1) |-> SubSeq(s, Nth(cuts, k) + 1, Nth(cuts, k + 1) - 1)]

(* float(text): the numerals float accepts over this alphabet. *)
FLOAT_FIN == [ic |-> TRUE,
  tree |-> Cat(<<Grp("sign", Opt(CharSet({"+", "-"}))),
                 Alt(<<Cat(<<Grp("int", Plus(CharSet(Digit))),
                             Opt(Cat(<<Chr("."), Grp("frac", Star(CharSet(Digit)))>>))>>),
                       Cat(<<Grp("int", Cat(<<>>)), Chr("."), Grp("frac", Plus(CharSet(Digit)))>>)>>),
                 Opt(Cat(<<Chr("e"), Grp("esign", Opt(CharSet({"+", "-"}))),
                           Grp("exp", Plus(CharSet(Digit)))>>)),
                 Eos>>)]
FLOAT_INF == [ic |-> TRUE,
  tree |-> Cat(<<Opt(CharSet({"+", "-"})), Lit(<<"i","n","f">>), Opt(Lit(<<"i","n","i","t","y">>)), Eos>>)]
FLOAT_NAN == [ic |-> TRUE,
  tree |-> Cat(<<Opt(CharSet({"+", "-"})), Lit(<<"n","a","n">>), Eos>>)]

HasGroup(m, name) == \E k \in 1..Len(m.c) : m.c[k].n = name
GroupOr(m, s, name, dflt) == IF HasGroup(m, name) THEN Group(m, s, name) ELSE dflt

Digits(cs) == [k \in 1..Len(cs) |-> DigitVal(cs[k])]
Signed(sign, n) == IF sign = <<"-">> THEN -n ELSE n

\* [ok, kind, neg, mant, pow]: the value is (-1)^neg * mant * 10^pow
FloatFrom(s, m, isInf, isNan) ==
  IF m.found
  THEN [ok |-> TRUE, kind |-> "fin",
        neg |-> Group(m, s, "sign") = <<"-">>,
        mant |-> Digits(Group(m, s, "int") \o GroupOr(m, s, "frac", <<>>)),
        pow |-> Signed(GroupOr(m, s, "esign", <<>>), DigitsToInt(GroupOr(m, s, "exp", <<>>)))
                - Len(GroupOr(m, s, "frac", <<>>))]
  ELSE IF isInf THEN [ok |-> TRUE, kind |-> "inf"]
  ELSE IF isNan THEN [ok |-> TRUE, kind |-> "nan"]
  ELSE [ok |-> FALSE]

FloatOfStripped(s) ==
  FloatFrom(s, Match(FLOAT_FIN, s), Match(FLOAT_INF, s).found, Match(FLOAT_NAN, s).found)

ParseFloat(tok) == FloatOfStripped(Strip(tok))

-----------------------------------------------------------------------------
(* parse_size *)
KB == <<"K","B">>
MB == <<"M","B">>
GB == <<"G","B">>
TB == <<"T","B">>

\* mult = {"KB":2**10,"MB":2**20,"GB":2**30,"TB":2**40}, as the exponents of 2
mult == (KB :> 10) @@ (MB :> 20) @@ (GB :> 30) @@ (TB :> 40)

Raise(exc) == [st |-> "raised", exc |-> exc]
Return(v)  == [st |-> "returned", value |-> v]

UpperStr(s) == [k \in 1..Len(s) |-> ToUpper(s[k])]             \* str.upper

\* int(float(num)*mult[unit.upper()]) for the float f and the upper-cased unit u
SizeOf(f, u) ==
  IF ~f.ok THEN Raise("ValueError")                             \* float(num)
  ELSE IF u \notin DOMAIN mult THEN Raise("KeyError")           \* mult[...]
  ELSE IF f.kind = "inf" THEN Raise("OverflowError")            \* int(inf)
  ELSE IF f.kind = "nan" THEN Raise("ValueError")               \* int(nan)
  ELSE Return(Some(SignedInt(f.neg, ScaleTen(TimesPow2(DigitsToLimbs(f.mant), mult[u]), f.pow))))

SizeOfTokens(toks) ==
  IF Len(toks) # 2 THEN Raise("ValueError")                     \* num, unit = ...
  ELSE SizeOf(ParseFloat(toks[1]), UpperStr(toks[2]))

\* the body of the try block
parse_size_try(text) == SizeOfTokens(Split(Strip(text)))

\* except Exception: every exception the body can raise is caught
\* mutant of Caught: "except ValueError" for "except Exception"
Caught_ValueErrorOnly == {"ValueError"}

Caught == {"ValueError", "KeyError", "OverflowError"}

OrNone(r) == IF r.st = "raised" /\ r.exc \in Caught THEN Return(None) ELSE r

parse_size(text) == OrNone(parse_size_try(text))

(* parse_dur *)
\* int(x) succeeds on a non-empty run of digits (signs and padding do not occur here)
IsInt(x) == x # <<>> /\ \A k \in 1..Len(x) : x[k] \in Digit

DurOf(parts) ==
  IF \E k \in 1..Len(parts) : ~IsInt(parts[k]) THEN Raise("ValueError")   \* int(x)
  ELSE IF Len(parts) # 3 THEN Raise("ValueError")                          \* h,m,s = [...]
  ELSE Return(DigitsToInt(parts[1]) * 3600 + DigitsToInt(parts[2]) * 60
              + DigitsToInt(parts[3]))

parse_dur(hms) == DurOf(SplitOn(hms, ":"))

-----------------------------------------------------------------------------
(* ---- patterns ---- (all compiled with re.I) *)
NumChars == Digit \cup {"."}                      \* [\d.]
Ws == Star(CharSet(Space))                         \* \s*

\* BOTTLE = r"Bottleneck:\s*Network:\s*(?P<pct>\d{1,3})%"
BOTTLE == [ic |-> TRUE,
  tree |-> Cat(<<Lit(<<"B","o","t","t","l","e","n","e","c","k",":">>), Ws,
                 Lit(<<"N","e","t","w","o","r","k",":">>), Ws,
                 Grp("pct", Rep(CharSet(Digit), 1, 3)), Chr("%")>>)]

\* (?P<bytes>[\d.]+\s*(?:KB|MB|GB|TB))
XferBytes == Grp("bytes", Cat(<<Plus(CharSet(NumChars)), Ws, Alt(<<Lit(KB), Lit(MB), Lit(GB), Lit(TB)>>)>>))
\* (?P<dur>\d{2}:\d{2}:\d{2})
XferDur == Grp("dur", Cat(<<Rep(CharSet(Digit), 2, 2), Chr(":"), Rep(CharSet(Digit), 2, 2),
                            Chr(":"), Rep(CharSet(Digit), 2, 2)>>))
\* (?P<spd>[\d.]+\s*(?:KB|MB|GB)/s)
XferSpd == Grp("spd", Cat(<<Plus(CharSet(NumChars)), Ws, Alt(<<Lit(KB), Lit(MB), Lit(GB)>>),
                            Lit(<<"/", "s">>)>>))

\* XFER = r"Transfer(?:red)?:\s*<bytes>.*?Duration:\s*<dur>.*?Avg speed:\s*<spd>"
XFER == [ic |-> TRUE,
  tree |-> Cat(<<Lit(<<"T","r","a","n","s","f","e","r">>), Opt(Lit(<<"r","e","d">>)), Chr(":"), Ws,
                 XferBytes, LazyStar(AnyChar),
                 Lit(<<"D","u","r","a","t","i","o","n",":">>), Ws, XferDur, LazyStar(AnyChar),
                 Lit(<<"A","v","g"," ","s","p","e","e","d",":">>), Ws, XferSpd>>)]

\* WAN = r"WAN Accelerator.*?(?:hit|cache hit)[:=]?\s*(?P<hit>\d{1,3})%"
WAN == [ic |-> TRUE,
  tree |-> Cat(<<Lit(<<"W","A","N"," ","A","c","c","e","l","e","r","a","t","o","r">>), LazyStar(AnyChar),
                 Alt(<<Lit(<<"h","i","t">>), Lit(<<"c","a","c","h","e"," ","h","i","t">>)>>),
                 Opt(CharSet({":", "="})), Ws,
                 Grp("hit", Rep(CharSet(Digit), 1, 3)), Chr("%")>>)]

\* RETRY = r"\b(?:retry|retries)\s*[:=]?\s*(?P<retries>\d+)\b"
RETRY == [ic |-> TRUE,
  tree |-> Cat(<<WordB, Alt(<<Lit(<<"r","e","t","r","y">>), Lit(<<"r","e","t","r","i","e","s">>)>>), Ws,
                 Opt(CharSet({":", "="})), Ws,
                 Grp("retries", Plus(CharSet(Digit))), WordB>>)]

-----------------------------------------------------------------------------
(* ---- parsing ---- one pass of the loop body of parse_events.  Each of the *)
(* four "m = P.search(msg); if m: ..." blocks gives the fields it sets and   *)
(* whether it sets hit; the Transfer block also gives the exception, if any, *)
(* that leaves the loop.                                                     *)
BottleFields(msg, m) ==
  IF m.found
  THEN [hit |-> TRUE, network_bottleneck_pct |-> Some(DigitsToInt(Group(m, msg, "pct")))]
  ELSE [hit |-> FALSE, network_bottleneck_pct |-> None]

BottleBlock(msg) == BottleFields(msg, Search(BOTTLE, msg))

XferResult(size, dur) ==
  IF size.st = "raised"
  THEN [hit |-> FALSE, bytes_sent |-> None, duration_s |-> None, exc |-> Some(size.exc)]
  ELSE IF dur.st = "raised"
  THEN [hit |-> FALSE, bytes_sent |-> size.value, duration_s |-> None, exc |-> Some(dur.exc)]
  ELSE [hit |-> TRUE, bytes_sent |-> size.value, duration_s |-> Some(dur.value), exc |-> None]

XferFields(msg, m) ==
  IF m.found
  THEN XferResult(parse_size(Group(m, msg, "bytes")), parse_dur(Group(m, msg, "dur")))
  ELSE [hit |-> FALSE, bytes_sent |-> None, duration_s |-> None, exc |-> None]

XferBlock(msg) == XferFields(msg, Search(XFER, msg))

WanFields(msg, m) ==
  IF m.found
  THEN [hit |-> TRUE, wan_cache_hit_pct |-> Some(DigitsToInt(Group(m, msg, "hit")))]
  ELSE [hit |-> FALSE, wan_cache_hit_pct |-> None]

WanBlock(msg) == WanFields(msg, Search(WAN, msg))

\* mutant of RetryFields: the retry block sets the field and forgets "hit = True"
RetryFields_HitNotSet(msg, m) ==
  IF m.found
  THEN [hit |-> FALSE, retries |-> Some(DigitsToInt(Group(m, msg, "retries")))]
  ELSE [hit |-> FALSE, retries |-> None]

RetryFields(msg, m) ==
  IF m.found
  THEN [hit |-> TRUE, retries |-> Some(DigitsToInt(Group(m, msg, "retries")))]
  ELSE [hit |-> FALSE, retries |-> None]

RetryBlock(msg) == RetryFields(msg, Search(RETRY, msg))

\* [row, hit, exc]: the row built, whether it is appended to out, and the
\* exception that ends parse_events instead (the blocks after it do not run)
RowOf(ts_text, msg, b, x, w, r) ==
  [row |-> [event_time |-> ts_text,
            bytes_sent |-> x.bytes_sent,
            duration_s |-> x.duration_s,
            network_bottleneck_pct |-> b.network_bottleneck_pct,
            wan_cache_hit_pct |-> IF x.exc = None THEN w.wan_cache_hit_pct ELSE None,
            retries |-> IF x.exc = None THEN r.retries ELSE None,
            message |-> msg],
   hit |-> b.hit \/ x.hit \/ (x.exc = None /\ (w.hit \/ r.hit)),
   exc |-> x.exc]

RowOfSplit(ts_text, msg) ==
  RowOf(ts_text, msg, BottleBlock(msg), XferBlock(msg), WanBlock(msg), RetryBlock(msg))

RowOfPair(split) == RowOfSplit(split[1], split[2])

ParseRow(raw) == RowOfPair(parse_ts_prefix(raw))

\* line 116: any([BOTTLE.search(msg), XFER.search(msg), WAN.search(msg), RETRY.search(msg)])
\* mutant of AnySearch: the validate test leaves the WAN pattern out
AnySearch_NoWan(msg) ==
  \/ Search(BOTTLE, msg).found
  \/ Search(XFER, msg).found
  \/ Search(RETRY, msg).found

AnySearch(msg) ==
  \/ Search(BOTTLE, msg).found
  \/ Search(XFER, msg).found
  \/ Search(WAN, msg).found
  \/ Search(RETRY, msg).found

\* line 115: _, msg = parse_ts_prefix(line)
Second(pair) == pair[2]
ValidateMatches(line) == AnySearch(Second(parse_ts_prefix(line)))

-----------------------------------------------------------------------------
(* Inputs of the model. *)
RECURSIVE SeqsUpTo(_, _)
\* the sequences over S of length at most n
SeqsUpTo(S, n) ==
  IF n = 0 THEN {<<>>}
  ELSE LET shorter == SeqsUpTo(S, n - 1)
       IN  shorter \cup {Append(q, x) : q \in shorter, x \in S}

TsText == <<"2","0","2","4","-","0","1","-","1","5"," ","1","0",":","3","0",":","4","5"," ">>
Sep    == <<";", " ">>

fBottle     == <<"B","o","t","t","l","e","n","e","c","k",":"," ","N","e","t","w","o","r","k",":"," ","8","7","%">>
fBottleBad  == <<"B","o","t","t","l","e","n","e","c","k",":"," ","N","e","t","w","o","r","k",":"," ","1","2","3","4","%">>
fXfer       == <<"T","r","a","n","s","f","e","r","r","e","d",":"," ","1",".","5"," ","G","B"," ","D","u","r","a","t","i","o","n",":"," ","0","1",":","0","2",":","0","3"," ","A","v","g"," ","s","p","e","e","d",":"," ","1","2",".","5"," ","M","B","/","s">>
fXferTight  == <<"T","r","a","n","s","f","e","r",":"," ","2","M","B"," ","D","u","r","a","t","i","o","n",":"," ","0","0",":","0","0",":","0","5"," ","A","v","g"," ","s","p","e","e","d",":"," ","1"," ","K","B","/","s">>
fXferDots   == <<"t","r","a","n","s","f","e","r",":"," ","1",".","2",".","3"," ","G","B"," ","d","u","r","a","t","i","o","n",":"," ","0","0",":","1","0",":","0","0"," ","a","v","g"," ","s","p","e","e","d",":"," ","1","G","B","/","s">>
fXferNoSpd  == <<"T","r","a","n","s","f","e","r",":"," ","2"," ","M","B"," ","D","u","r","a","t","i","o","n",":"," ","0","0",":","0","0",":","0","5">>
fWan        == <<"W","A","N"," ","A","c","c","e","l","e","r","a","t","o","r"," ","c","a","c","h","e"," ","h","i","t",":"," ","4","5","%">>
fRetry      == <<"r","e","t","r","i","e","s",":"," ","3">>
fRetryBad   == <<"r","e","t","r","y","i","n","g"," ","3">>
fNoise      == <<"J","o","b"," ","s","t","a","r","t","e","d">>

Core == <<fBottle, fXfer, fWan, fRetry>>

\* lines given to scan: every fragment alone, the matching fragments in pairs and
\* all together, and some behind a timestamp
ScanPool ==
  {fBottle, fBottleBad, fXfer, fXferTight, fXferDots, fXferNoSpd, fWan, fRetry, fRetryBad, fNoise}
  \cup {Core[ij[1]] \o Sep \o Core[ij[2]] : ij \in {p \in (1..4) \X (1..4) : p[1] < p[2]}}
  \cup {fRetry \o Sep \o fXferTight \o Sep \o fWan \o Sep \o fBottle}
  \cup {TsText \o f : f \in {fBottle, fXferTight, fRetry, fNoise}}

\* lines given to validate
ValidatePool ==
  {fBottle, fXferTight, fXferNoSpd, fWan, fRetryBad, fNoise, TsText \o fRetry, TsText \o fNoise}

MaxScanLines == 2
MaxValidateLines == 3
MaxLimit == 2
DefaultLimit == 40          \* v.add_argument("--limit", type=int, default=40)
Limits == (-1 .. MaxLimit) \cup {DefaultLimit}

\* parse_events and the validate test are pure in the line: their results on the
\* pool are computed once and looked up by the actions
RowTable   == [l \in ScanPool \cup ValidatePool |-> ParseRow(l)]
MatchTable == [l \in ScanPool \cup ValidatePool |-> ValidateMatches(l)]

-----------------------------------------------------------------------------
(* ---- CLI ---- main, after argparse: the scan command. *)
Idle == [st |-> "idle"]

MainIdle ==
  /\ cmd = "none" /\ lines = <<>> /\ limit = 0 /\ idx = 0 /\ out = <<>>
  /\ shown = 0 /\ printed = <<>> /\ notice = FALSE /\ csv = None /\ pc = "idle"
TsIdle   == tsLine = <<>> /\ tsResult = Idle
SzIdle   == szText = <<>> /\ szResult = Idle
SrcIdle  == isDir = FALSE /\ files = <<>> /\ fidx = 0 /\ yielded = <<>> /\ srcpc = "idle"

ScanInit ==
  /\ cmd = "scan"
  /\ lines \in SeqsUpTo(ScanPool, MaxScanLines)
  /\ limit = 0 /\ idx = 1 /\ out = <<>>
  /\ shown = 0 /\ printed = <<>> /\ notice = FALSE /\ csv = None
  /\ pc = "parse_events"
  /\ TsIdle /\ SzIdle /\ SrcIdle

\* the end of the loop body for the pass st: "if hit: out.append(row)", or the
\* exception leaving parse_events and main
\* mutant of AppendRow: the row is put in front of out (out.insert(0, row))
AppendRow_Prepend(st) ==
  IF st.exc # None
  THEN /\ pc' = "error"
       /\ UNCHANGED <<idx, out>>
  ELSE /\ out' = IF st.hit THEN <<st.row>> \o out ELSE out
       /\ idx' = idx + 1
       /\ pc' = pc

AppendRow(st) ==
  IF st.exc # None
  THEN /\ pc' = "error"
       /\ UNCHANGED <<idx, out>>
  ELSE /\ out' = IF st.hit THEN Append(out, st.row) ELSE out
       /\ idx' = idx + 1
       /\ pc' = pc

\* one iteration of "for raw in lines" in parse_events
ParseEventsLine ==
  /\ pc = "parse_events" /\ idx <= Len(lines)
  /\ AppendRow(RowTable[lines[idx]])
  /\ UNCHANGED <<cmd, lines, limit, shown, printed, notice, csv>>
  /\ UNCHANGED <<tsVars, szVars, srcVars>>

Headers == <<"event_time", "bytes_sent", "duration_s", "network_bottleneck_pct",
             "wan_cache_hit_pct", "retries", "message">>

\* return out; write_csv(rows, out_path); print the summary
ScanWrite ==
  /\ pc = "parse_events" /\ idx > Len(lines)
  /\ csv' = Some([header |-> Headers, rows |-> out])
  /\ printed' = Append(printed, [done |-> Len(out)])
  /\ pc' = "done"
  /\ UNCHANGED <<cmd, lines, limit, idx, out, shown, notice>>
  /\ UNCHANGED <<tsVars, szVars, srcVars>>

ScanNext == ParseEventsLine \/ ScanWrite
SpecScan == ScanInit /\ [][ScanNext]_vars

(* main: the validate command. *)
ValidateInit ==
  /\ cmd = "validate"
  /\ lines \in SeqsUpTo(ValidatePool, MaxValidateLines)
  /\ limit \in Limits
  /\ idx = 1 /\ out = <<>>
  /\ shown = 0 /\ printed = <<>> /\ notice = FALSE /\ csv = None
  /\ pc = "validate"
  /\ TsIdle /\ SzIdle /\ SrcIdle

\* one iteration of "for line in yield_lines(p)"
ValidateLine ==
  /\ pc = "validate" /\ idx <= Len(lines)
  /\ IF MatchTable[lines[idx]]
     THEN /\ printed' = Append(printed, lines[idx])
          /\ shown' = shown + 1
          /\ IF shown + 1 >= limit
             THEN pc' = "after_loop" /\ idx' = idx          \* break
             ELSE pc' = pc /\ idx' = idx + 1
     ELSE /\ idx' = idx + 1
          /\ UNCHANGED <<printed, shown, pc>>
  /\ UNCHANGED <<cmd, lines, limit, out, notice, csv>>
  /\ UNCHANGED <<tsVars, szVars, srcVars>>

\* mutant of NoticeDue: the notice whenever fewer lines than the limit were shown
NoticeDue_BelowLimit == shown < limit

\* if shown == 0:
NoticeDue == shown = 0

\* after the loop (exhausted or broken out of): if shown == 0: print(...)
ValidateEnd ==
  /\ \/ pc = "after_loop"
     \/ pc = "validate" /\ idx > Len(lines)
  /\ notice' = NoticeDue
  /\ pc' = "done"
  /\ UNCHANGED <<cmd, lines, limit, idx, out, shown, printed, csv>>
  /\ UNCHANGED <<tsVars, szVars, srcVars>>

ValidateNext == ValidateLine \/ ValidateEnd
SpecValidate == ValidateInit /\ [][ValidateNext]_vars

-----------------------------------------------------------------------------
(* parse_ts_prefix applied to one line. *)
MaxRun == 28
MaxGap == 2

TsTails == {<<>>, <<"x">>, <<"1","2",":","3","0"," ","x">>, <<"-","1",".","5"," ">>}

\* a run of class characters, a gap of blanks and a tail, around the 19..26
\* window, and timestamps as the logs write them
TsLines ==
  {Repeat("7", a) \o Repeat(" ", w) \o tl : a \in 0..MaxRun, w \in 0..MaxGap, tl \in TsTails}
  \cup {TsText \o fNoise,
        <<"2","0","2","4","-","0","1","-","1","5"," ","1","0",":","3","0",":","4","5",".","1","2","3"," "," "," ">> \o fRetry,
        <<"2","0","2","4","-","0","1","-","1","5","\t","1","0",":","3","0",":","4","5","\t">> \o fBottle,
        <<"[","2","0","2","4","-","0","1","-","1","5"," ","1","0",":","3","0",":","4","5","]"," ">> \o fNoise,
        <<"1","0",":","3","0",":","4","5"," ">> \o fRetry}

TsInit ==
  /\ tsLine \in TsLines /\ tsResult = Idle
  /\ SzIdle /\ SrcIdle /\ MainIdle

TsCall ==
  /\ tsResult = Idle
  /\ tsResult' = Return(parse_ts_prefix(tsLine))
  /\ UNCHANGED <<tsLine, szVars, srcVars, mainVars>>

TsNext == TsCall
SpecTs == TsInit /\ [][TsNext]_vars

-----------------------------------------------------------------------------
(* parse_size applied to one text. *)
MaxPad == 2

SzNums ==
  {<<"2">>, <<"1",".","5">>, <<"0",".","7">>, <<"5">>, <<"1",".","2",".","3">>, <<>>, <<"a","b","c">>, <<".","5">>, <<"5",".">>, <<".">>, <<"-","5">>, <<"1","e","3">>, <<"1","e","-","2">>, <<"i","n","f">>, <<"n","a","n">>, <<"0","0","7">>, <<"0">>, <<"-","0",".","0","0","0","1">>, <<"9","9","9">>, <<"1","2",".","3","4","5">>}
SzUnits ==
  {<<"K","B">>, <<"k","b">>, <<"M","B">>, <<"M","b">>, <<"G","B">>, <<"T","B">>, <<"X","B">>, <<"B">>, <<>>, <<"M","B","/","s">>, <<"M","B"," ","x">>}
SzPads == {Repeat(" ", k) : k \in 0..MaxPad} \cup {<<"\t">>}

SzTexts ==
  {n \o pad \o u : n \in SzNums, pad \in SzPads, u \in SzUnits}
  \cup {<<" ">> \o n \o <<" ">> \o u \o <<" ", "\t">> : n \in SzNums, u \in SzUnits}

SzInit ==
  /\ szText \in SzTexts /\ szResult = Idle
  /\ TsIdle /\ SrcIdle /\ MainIdle

\* the call returns a value, or the exception the try block let through
SzCall ==
  /\ szResult = Idle
  /\ szResult' = parse_size(szText)
  /\ UNCHANGED <<szText, tsVars, srcVars, mainVars>>

SzNext == SzCall
SpecSize == SzInit /\ [][SzNext]_vars

-----------------------------------------------------------------------------
(* ---- file/dir reader ---- yield_lines.  A file is [log, content, fail]:  *)
(* whether its name matches *.log, its lines as the file iterator gives      *)
(* them, and, when it cannot be read, the number of lines delivered before   *)
(* the exception (0: open fails).                                            *)
MaxFiles == 2

Contents ==
  {<<>>,
   <<<<"a", "\n">>>>,
   <<<<"a", "\n">>, <<"b">>>>,
   <<<<"\n">>, <<"b", "\n">>>>}

Files ==
  {[log |-> l, content |-> c, fail |-> f] :
     l \in BOOLEAN, c \in Contents, f \in {None} \cup {Some(k) : k \in 0..2}}
  \ {x \in [log : BOOLEAN, content : Contents, fail : {None} \cup {Some(k) : k \in 0..2}] :
       x.fail # None /\ x.fail[1] > Len(x.content)}

\* line.rstrip("\n")
RStripNl(line) == RStripOf(line, {"\n"})

\* the lines a file gives before it ends or fails
Delivered(f) ==
  LET n == IF f.fail = None THEN Len(f.content) ELSE f.fail[1]
  IN  [k \in 1..n |-> RStripNl(f.content[k])]

SrcInit ==
  /\ isDir \in BOOLEAN
  /\ files \in IF isDir THEN SeqsUpTo(Files, MaxFiles) ELSE {<<f>> : f \in Files}
  /\ fidx = 1 /\ yielded = <<>> /\ srcpc = "yield_lines"
  /\ TsIdle /\ SzIdle /\ MainIdle

\* if path.is_dir(): one file of "for f in path.rglob("*.log")", inside try/except
YieldDirFile ==
  /\ srcpc = "yield_lines" /\ isDir /\ fidx <= Len(files)
  /\ yielded' = IF files[fidx].log THEN yielded \o Delivered(files[fidx]) ELSE yielded
  /\ fidx' = fidx + 1
  /\ UNCHANGED <<isDir, files, srcpc, tsVars, szVars, mainVars>>

\* the directory walk is over
YieldDirEnd ==
  /\ srcpc = "yield_lines" /\ isDir /\ fidx > Len(files)
  /\ srcpc' = "done"
  /\ UNCHANGED <<isDir, files, fidx, yielded, tsVars, szVars, mainVars>>

\* else: with path.open(...) as fh: ... , with no try around it
YieldFile ==
  /\ srcpc = "yield_lines" /\ ~isDir
  /\ yielded' = yielded \o Delivered(files[1])
  /\ srcpc' = IF files[1].fail = None THEN "done" ELSE "error"
  /\ fidx' = fidx + 1
  /\ UNCHANGED <<isDir, files, tsVars, szVars, mainVars>>

SrcNext == YieldDirFile \/ YieldDirEnd \/ YieldFile
SpecSource == SrcInit /\ [][SrcNext]_vars

-----------------------------------------------------------------------------
(* The whole program: any of the components above. *)
Init == TsInit \/ SzInit \/ SrcInit \/ ScanInit \/ ValidateInit
Next == TsNext \/ SzNext \/ SrcNext \/ ScanNext \/ ValidateNext
Spec == Init /\ [][Next]_vars

-----------------------------------------------------------------------------
(* Properties.  What a line is, looked at directly: its split, and which of *)
(* the four patterns are found in its message.                              *)
Pool == ScanPool \cup ValidatePool

Found4(msg) ==
  [bottle |-> Search(BOTTLE, msg).found, xfer |-> Search(XFER, msg).found,
   wan |-> Search(WAN, msg).found, retry |-> Search(RETRY, msg).found]

SplitOfLine == [l \in Pool |-> parse_ts_prefix(l)]
FoundInLine == [l \in Pool |-> Found4(Second(parse_ts_prefix(l)))]

AnyFound(l) ==
  FoundInLine[l].bottle \/ FoundInLine[l].xfer \/ FoundInLine[l].wan \/ FoundInLine[l].retry

HasNumber(row) ==
  \/ row.bytes_sent # None \/ row.duration_s # None \/ row.network_bottleneck_pct # None
  \/ row.wan_cache_hit_pct # None \/ row.retries # None

\* the members of ls at the positions in at, in order
Pick(ls, at) == [j \in 1..Cardinality(at) |-> ls[Nth(at, j)]]

MatchingAt(ls) == {k \in 1..Len(ls) : AnyFound(ls[k])}

LesserOf(a, b) == IF a <= b THEN a ELSE b

(* C1: in scan, a record is emitted for a line if and only if one of the   *)
(* four patterns is found in its message, and every record emitted has at  *)
(* least one of the five numeric fields set.                               *)
C1_RecordIffMatched ==
  cmd = "scan" =>
    /\ \A k \in 1..(idx - 1) :
         AnyFound(lines[k]) <=>
           \E j \in 1..Len(out) : /\ out[j].message = SplitOfLine[lines[k]][2]
                                  /\ out[j].event_time = SplitOfLine[lines[k]][1]
    /\ Len(out) = Cardinality(MatchingAt(SubSeq(lines, 1, idx - 1)))
    /\ \A j \in 1..Len(out) : HasNumber(out[j])

\* scan is over two lines, one without a match, one a Transfer line whose size
\* does not parse: its record is there with the duration alone
C1_Witness ==
  /\ cmd = "scan" /\ pc = "done" /\ Len(lines) = 2 /\ Len(out) = 1
  /\ ~AnyFound(lines[1]) /\ FoundInLine[lines[2]].xfer
  /\ out[1].bytes_sent = None /\ out[1].duration_s # None
  /\ out[1].network_bottleneck_pct = None /\ out[1].wan_cache_hit_pct = None
  /\ out[1].retries = None

(* C2 (as claimed): validate with limit N >= 0 over an input with M         *)
(* matching lines prints exactly the first min(N, M) matching raw lines.    *)
C2_PrintsMinOfLimitAndMatches ==
  (cmd = "validate" /\ pc = "done" /\ limit >= 0) =>
    printed = Pick(lines, {k \in MatchingAt(lines) :
                             Cardinality({o \in MatchingAt(lines) : o <= k})
                               <= LesserOf(limit, Cardinality(MatchingAt(lines)))})

(* C3 (as claimed): an unreadable file is never surfaced: whether it is in  *)
(* the directory given or is the path given, yield_lines ends normally and  *)
(* has produced the lines of every readable file.                           *)
ReadableAt == {k \in 1..Len(files) : (isDir => files[k].log) /\ files[k].fail = None}

HasBlock(ls, block) ==
  \E o \in 0..(Len(ls) - Len(block)) : SubSeq(ls, o + 1, o + Len(block)) = block

C3_UnreadableNeverSurfaced ==
  /\ srcpc # "error"
  /\ srcpc = "done" => \A k \in ReadableAt : HasBlock(yielded, Delivered(files[k]))

(* C4: the records of scan are in the order of their lines, at most one per *)
(* line, each the record of its line alone: the output for a sequence is    *)
(* the output for any front part followed by the output for the rest.       *)
RowsOf(ls) == [j \in 1..Cardinality({k \in 1..Len(ls) : RowTable[ls[k]].hit}) |->
                 RowTable[ls[Nth({k \in 1..Len(ls) : RowTable[ls[k]].hit}, j)]].row]

C4_OrderPreserved ==
  cmd = "scan" =>
    /\ Len(out) <= idx - 1
    /\ out = RowsOf(SubSeq(lines, 1, idx - 1))
    /\ pc = "done" =>
         \A j \in 0..Len(lines) :
           out = RowsOf(SubSeq(lines, 1, j)) \o RowsOf(SubSeq(lines, j + 1, Len(lines)))

\* two lines, both with a record, the records different and in line order
C4_Witness ==
  /\ cmd = "scan" /\ pc = "done" /\ Len(lines) = 2 /\ Len(out) = 2
  /\ out[1] # out[2]
  /\ out[1].message = SplitOfLine[lines[1]][2] /\ out[2].message = SplitOfLine[lines[2]][2]

(* C5: validate, with a limit above the number of lines, prints a line if   *)
(* and only if scan emits a record for it, and prints it raw, timestamp     *)
(* included; a line without a match gives neither a record nor a print.     *)
C5_ValidateAgreesWithScan ==
  (cmd = "validate" /\ pc = "done" /\ limit > Len(lines)) =>
    printed = Pick(lines, {k \in 1..Len(lines) : RowTable[lines[k]].hit})

\* a timestamped line was printed whole, another line was passed over
C5_Witness ==
  /\ cmd = "validate" /\ pc = "done" /\ limit > Len(lines)
  /\ Len(lines) = 2 /\ printed = <<TsText \o fRetry>>
  /\ lines[1] = fRetryBad

(* C6 (as claimed): in every record each field group is set exactly when    *)
(* its own pattern is found in the message, whatever the other patterns do. *)
C6_FieldsIffOwnExtractor ==
  cmd = "scan" =>
    \A j \in 1..Len(out) : \A l \in ScanPool :
      (SplitOfLine[l][2] = out[j].message) =>
        /\ (out[j].network_bottleneck_pct # None) <=> FoundInLine[l].bottle
        /\ (out[j].bytes_sent # None) <=> FoundInLine[l].xfer
        /\ (out[j].duration_s # None) <=> FoundInLine[l].xfer
        /\ (out[j].wan_cache_hit_pct # None) <=> FoundInLine[l].wan
        /\ (out[j].retries # None) <=> FoundInLine[l].retry

Numerals ==
  (<<"2">> :> [neg |-> FALSE, n |-> 2, dec |-> 0]) @@
  (<<"1",".","5">> :> [neg |-> FALSE, n |-> 15, dec |-> 1]) @@
  (<<"0",".","7">> :> [neg |-> FALSE, n |-> 7, dec |-> 1]) @@
  (<<"5">> :> [neg |-> FALSE, n |-> 5, dec |-> 0]) @@
  (<<".","5">> :> [neg |-> FALSE, n |-> 5, dec |-> 1]) @@
  (<<"5",".">> :> [neg |-> FALSE, n |-> 5, dec |-> 0]) @@
  (<<"-","5">> :> [neg |-> TRUE, n |-> 5, dec |-> 0]) @@
  (<<"1","e","3">> :> [neg |-> FALSE, n |-> 1000, dec |-> 0]) @@
  (<<"1","e","-","2">> :> [neg |-> FALSE, n |-> 1, dec |-> 2]) @@
  (<<"0","0","7">> :> [neg |-> FALSE, n |-> 7, dec |-> 0]) @@
  (<<"0">> :> [neg |-> FALSE, n |-> 0, dec |-> 0]) @@
  (<<"-","0",".","0","0","0","1">> :> [neg |-> TRUE, n |-> 1, dec |-> 4]) @@
  (<<"9","9","9">> :> [neg |-> FALSE, n |-> 999, dec |-> 0]) @@
  (<<"1","2",".","3","4","5">> :> [neg |-> FALSE, n |-> 12345, dec |-> 3])

UnitPower ==
  (<<"K","B">> :> 10) @@ (<<"k","b">> :> 10) @@ (<<"M","B">> :> 20) @@ (<<"M","b">> :> 20) @@
  (<<"G","B">> :> 30) @@ (<<"T","B">> :> 40)

Blank(s) == \A k \in 1..Len(s) : s[k] \in Space

\* text is blanks, the numeral n, at least one blank, the unit u, blanks
Reads(text, n, u) ==
  \E a \in 0..Len(text), g \in 1..Len(text) :
    /\ a + Len(n) + g + Len(u) <= Len(text)
    /\ Blank(SubSeq(text, 1, a))
    /\ SubSeq(text, a + 1, a + Len(n)) = n
    /\ Blank(SubSeq(text, a + Len(n) + 1, a + Len(n) + g))
    /\ SubSeq(text, a + Len(n) + g + 1, a + Len(n) + g + Len(u)) = u
    /\ Blank(SubSeq(text, a + Len(n) + g + Len(u) + 1, Len(text)))

WellFormed(text) == \E n \in DOMAIN Numerals, u \in DOMAIN UnitPower : Reads(text, n, u)

\* the decimal digits of a natural number of the machine integers
DigitsOfNat(n) ==
  IF n = 0 THEN <<0>> ELSE
  LET len == CHOOSE k \in 1..10 : 10^(k - 1) <= n /\ (k = 10 \/ n < 10^k)
  IN  [i \in 1..len |-> (n \div 10^(len - i)) % 10]

\* n * 2**p / 10**dec fits the machine integers
Fits(num, p) == p <= 20 /\ num.n <= 2047

C8_SizeValue(text, r) ==
  /\ r.st = "returned"
  /\ r.value # None <=> WellFormed(text)
  /\ \A n \in DOMAIN Numerals, u \in DOMAIN UnitPower :
       (Reads(text, n, u) /\ Fits(Numerals[n], UnitPower[u])) =>
         /\ r.value[1].d = DigitsOfNat((Numerals[n].n * 2^UnitPower[u]) \div 10^Numerals[n].dec)
         /\ r.value[1].neg = (Numerals[n].neg /\ r.value[1].d # <<0>>)
  /\ text = <<"2"," ","M","B">> => r.value = Some([neg |-> FALSE, d |-> <<2,0,9,7,1,5,2>>])
  /\ text = <<"1",".","5"," ","G","B">> => r.value = Some([neg |-> FALSE, d |-> <<1,6,1,0,6,1,2,7,3,6>>])
  /\ text = <<"5"," ","X","B">> => r.value = None
  /\ text = <<"2"," ","T","B">> => r.value = Some([neg |-> FALSE, d |-> <<2,1,9,9,0,2,3,2,5,5,5,5,2>>])
  /\ text = <<"1","2",".","3","4","5"," ","G","B">> => r.value = Some([neg |-> FALSE, d |-> <<1,3,2,5,5,3,4,2,8,1,7>>])

C8_ParseSizeTotal == szResult # Idle => C8_SizeValue(szText, szResult)

\* a call with an unknown unit has returned null
C8_Witness ==
  /\ szText = <<"5"," ","X","B">> /\ szResult = Return(None)

(* C9: the timestamp split loses nothing: without a leading run of 19..26   *)
(* timestamp characters followed by whitespace, event_time is null and the  *)
(* message is the line; with one, event_time is such a run and the line is  *)
(* event_time, then one or more whitespace characters, then the message.    *)
HasTsPrefix(line) ==
  \E n \in 19..26 :
    /\ n + 1 <= Len(line)
    /\ \A k \in 1..n : line[k] \in Digit \cup {":", ".", "-", " ", "\t"}
    /\ line[n + 1] \in {" ", "\t"}

C9_Split(line, ts, msg) ==
  /\ ~HasTsPrefix(line) => (ts = None /\ msg = line)
  /\ HasTsPrefix(line) =>
       /\ ts # None
       /\ Len(ts[1]) \in 19..26
       /\ \A k \in 1..Len(ts[1]) : ts[1][k] \in Digit \cup {":", ".", "-", " ", "\t"}
       /\ \E g \in 1..Len(line) :
            /\ Len(ts[1]) + g + Len(msg) = Len(line)
            /\ SubSeq(line, 1, Len(ts[1])) = ts[1]
            /\ Blank(SubSeq(line, Len(ts[1]) + 1, Len(ts[1]) + g))
            /\ SubSeq(line, Len(ts[1]) + g + 1, Len(line)) = msg

C9_TsSplitLossless ==
  tsResult # Idle => C9_Split(tsLine, tsResult.value[1], tsResult.value[2])

\* a timestamp of 19 characters, one separator, and the message
C9_Witness ==
  /\ tsLine = TsText \o fNoise
  /\ tsResult = Return(<<Some(SubSeq(TsText, 1, 19)), fNoise>>)

(* C10 (as claimed): in every record of scan, bytes_sent is set if and only *)
(* if duration_s is set.                                                    *)
C10_BytesIffDuration ==
  cmd = "scan" =>
    \A j \in 1..Len(out) : (out[j].bytes_sent # None) <=> (out[j].duration_s # None)

====
